---- MODULE Spec2Model ----
(***************************************************************************)
(* A model of fdroidserver/scanner.py: the source-tree walk and its        *)
(* disposition of findings (scan_source), the signature cache              *)
(* (SignatureDataController) and the recursive archive inspection          *)
(* (get_embedded_classes).  Each of the three parts has its own            *)
(* specification (SpecScan, SpecCache, SpecZip) over its own variables.    *)
(***************************************************************************)
EXTENDS Integers, Sequences, FiniteSets, TLC

\* scan_source: the state of one call
VARIABLES
    files0,             \* the files of build_dir when the scan starts
    tree,               \* the files of build_dir that exist now
    todo,               \* the files os.walk has still to yield
    scanignore,         \* the keys of the scanignore map, in the dict's order
    scandelete,         \* the keys of the scandelete map, in the dict's order
    scanignore_worked,
    scandelete_worked,
    options,            \* the module's options: "None", or whether options.json is set
    json_per_build,     \* [errors, warnings, infos], each a list
    count,              \* scan_source's local count
    SCANNER_TOOL,       \* the module's lazily built tool: "None" or "ScannerTool"
    scan_pc,            \* "walk", "done" (count returned) or "raised"
    scan_exc            \* the exception that left scan_source, or "none"

scanVars ==
    << files0, tree, todo, scanignore, scandelete, scanignore_worked,
       scandelete_worked, options, json_per_build, count, SCANNER_TOOL, scan_pc,
       scan_exc >>

\* SignatureDataController: a controller and its cache file
VARIABLES
    cache_file,     \* the file cachedir/scanner.json
    sdc_data,       \* the controller's self.data
    cache_config,   \* whether config names 'cachedir_scanner'
    now,            \* _datetime_now(), in days
    last_call,      \* the method called last
    raised,         \* the exception the last call ended with, or "none"
    fell_back,      \* the last load went through load_from_defaults
    written,        \* the data of the last write_to_cache, or NotWritten
    trip            \* how far a write, new controller, load sequence has come

cacheVars ==
    << cache_file, sdc_data, cache_config, now, last_call, raised, fell_back, written, trip >>

\* get_embedded_classes: one top-level call and the calls it makes
VARIABLES
    zip_stack,      \* the calls that have opened their archive, outermost first
    zip_pc,         \* "call", "running", "done" (a set was returned) or "raised"
    zip_result,     \* the set the top-level call returned
    zip_exc,        \* the exception that left the top-level call, or "none"
    zip_odd,        \* how many entries so far were not a sound, well-named archive
    zip_opened,     \* the depths at which zipfile.ZipFile opened an archive
    zip_refused,    \* the archives a call refused as deeper than the bound
    zip_failed      \* the archives and entries zipfile reported as bad or unreadable

zipVars ==
    << zip_stack, zip_pc, zip_result, zip_exc, zip_odd, zip_opened, zip_refused, zip_failed >>

\* main: the loop over the applications and their builds
VARIABLES
    main_pc,            \* "apps", "builds", "filter" (lines 767-770 are next) or "done"
    main_app,           \* the applications taken from apps.items() so far
    main_builds,        \* the builds of the application taken so far
    main_force,         \* options.force
    main_reports,       \* the report objects made so far, by <<application, key>>
    main_jpb,           \* the report object the global json_per_build names
    json_per_appid,     \* the keys of the application's dict, in order
    json_output,        \* application -> the keys of its json_per_appid
    probcount

mainVars ==
    << main_pc, main_app, main_builds, main_force, main_reports, main_jpb,
       json_per_appid, json_output, probcount >>

(***************************************************************************)
(* Strings are sequences of one-character strings, so that str.startswith, *)
(* str.endswith, the "in" operator, os.path.splitext and the regular       *)
(* expressions of the source are computed character by character.          *)
(***************************************************************************)
StartsWith(s, p) == Len(p) <= Len(s) /\ SubSeq(s, 1, Len(p)) = p

EndsWith(s, p) == Len(p) <= Len(s) /\ SubSeq(s, Len(s) - Len(p) + 1, Len(s)) = p

\* sub occurs in s at position i (1-based)
OccursAt(s, sub, i) == i >= 1 /\ i + Len(sub) - 1 <= Len(s) /\ SubSeq(s, i, i + Len(sub) - 1) = sub

\* Python's  sub in s
Contains(s, sub) == \E i \in 1..(Len(s) + 1) : OccursAt(s, sub, i)

\* str.rfind(c) as a 1-based position, 0 when c does not occur
RFind(s, c) == IF \E i \in 1..Len(s) : s[i] = c
               THEN CHOOSE i \in 1..Len(s) : s[i] = c /\ \A j \in (i + 1)..Len(s) : s[j] # c
               ELSE 0

\* os.path.basename: what follows the last separator
Basename(p) == SubSeq(p, RFind(p, "/") + 1, Len(p))

\* the directory components of a path, as the set of their names
DirNames(p) ==
    { SubSeq(p, i, j) : <<i, j>> \in
        { <<a, b>> \in (1..Len(p)) \X (1..Len(p)) :
            /\ a <= b
            /\ (a = 1 \/ p[a - 1] = "/")
            /\ b < Len(p) /\ p[b + 1] = "/"
            /\ \A k \in a..b : p[k] # "/" } }

\* os.path.splitext(p)[1]: the extension of the last component, leading dots skipped
SplitExt(p) ==
    LET sep == RFind(p, "/")
        dot == RFind(p, ".")
    IN  IF dot > sep /\ \E k \in (sep + 1)..(dot - 1) : p[k] # "."
        THEN SubSeq(p, dot, Len(p))
        ELSE << >>

(***************************************************************************)
(* The words the source compares file names and paths with.                *)
(***************************************************************************)
S_gradlew == <<"g", "r", "a", "d", "l", "e", "w">>
S_gradlew_bat == <<"g", "r", "a", "d", "l", "e", "w", ".", "b", "a", "t">>
S_gradle_wrapper_jar == <<"g", "r", "a", "d", "l", "e", "-", "w", "r", "a", "p", "p", "e", "r", ".", "j", "a", "r">>
S_DS_Store == <<".", "D", "S", "_", "S", "t", "o", "r", "e">>
X_apk == <<".", "a", "p", "k">>
X_a == <<".", "a">>
X_aar == <<".", "a", "a", "r">>
X_class == <<".", "c", "l", "a", "s", "s">>
X_dex == <<".", "d", "e", "x">>
X_gz == <<".", "g", "z">>
X_so == <<".", "s", "o">>
X_zip == <<".", "z", "i", "p">>
X_jar == <<".", "j", "a", "r">>
X_java == <<".", "j", "a", "v", "a">>
X_gradle == <<".", "g", "r", "a", "d", "l", "e">>
X_gradle_kts == <<".", "g", "r", "a", "d", "l", "e", ".", "k", "t", "s">>
X_bin == <<".", "b", "i", "n">>
X_out == <<".", "o", "u", "t">>
X_exe == <<".", "e", "x", "e">>
X_png == <<".", "p", "n", "g">>
S_src_test == <<"s", "r", "c", "/", "t", "e", "s", "t">>
S_slash_test_slash == <<"/", "t", "e", "s", "t", "/">>
S_slash_drawable == <<"/", "d", "r", "a", "w", "a", "b", "l", "e">>
S_slash_mipmap == <<"/", "m", "i", "p", "m", "a", "p">>
VcsDirs == { <<".", "h", "g">>, <<".", "g", "i", "t">>, <<".", "s", "v", "n">>, <<".", "b", "z", "r">> }

(***************************************************************************)
(* The files a source tree is drawn from.  A file is named by its path in  *)
(* the build directory; FileAttr gives what the scan reads of it:          *)
(*   link      os.path.islink                                              *)
(*   isfile    os.path.isfile                                              *)
(*   exec      os.access(path, os.X_OK)                                    *)
(*   binary    is_binary: a byte outside textchars in the first 1024       *)
(*   image     imghdr.what is not None                                     *)
(*   suspects  one number per query of suspects_found (the .jar's name, or *)
(*             each line of a build script that is_used_by_gradle): how    *)
(*             many signature names it yields                              *)
(*   repos     how many URLs MAVEN_URL_REGEX finds that no allowed_repos   *)
(*             pattern matches                                             *)
(*   dexloader some line holds 'DexClassLoader'                            *)
(***************************************************************************)
FileIds ==
    { "gradlew", "lib/gradle-wrapper.jar", "src/test/gradlew.bat", "lib/x.apk",
      "lib/a.jar", "src/test/b.so.1", "build.gradle", "X.java", "bin",
      "res/drawable/i.png", "lib/run.sh", ".git/gradlew", "lnk.apk", ".DS_Store",
      "README.txt", "logo.gif", "res/mipmap-hdpi/ic.png" }

PathOf(f) ==
    CASE f = "gradlew" -> <<"g", "r", "a", "d", "l", "e", "w">>
      [] f = "lib/gradle-wrapper.jar" -> <<"l", "i", "b", "/", "g", "r", "a", "d", "l", "e", "-", "w", "r", "a", "p", "p", "e", "r", ".", "j", "a", "r">>
      [] f = "src/test/gradlew.bat" -> <<"s", "r", "c", "/", "t", "e", "s", "t", "/", "g", "r", "a", "d", "l", "e", "w", ".", "b", "a", "t">>
      [] f = "lib/x.apk" -> <<"l", "i", "b", "/", "x", ".", "a", "p", "k">>
      [] f = "lib/a.jar" -> <<"l", "i", "b", "/", "a", ".", "j", "a", "r">>
      [] f = "src/test/b.so.1" -> <<"s", "r", "c", "/", "t", "e", "s", "t", "/", "b", ".", "s", "o", ".", "1">>
      [] f = "build.gradle" -> <<"b", "u", "i", "l", "d", ".", "g", "r", "a", "d", "l", "e">>
      [] f = "X.java" -> <<"X", ".", "j", "a", "v", "a">>
      [] f = "bin" -> <<"b", "i", "n">>
      [] f = "res/drawable/i.png" -> <<"r", "e", "s", "/", "d", "r", "a", "w", "a", "b", "l", "e", "/", "i", ".", "p", "n", "g">>
      [] f = "lib/run.sh" -> <<"l", "i", "b", "/", "r", "u", "n", ".", "s", "h">>
      [] f = ".git/gradlew" -> <<".", "g", "i", "t", "/", "g", "r", "a", "d", "l", "e", "w">>
      [] f = "lnk.apk" -> <<"l", "n", "k", ".", "a", "p", "k">>
      [] f = ".DS_Store" -> <<".", "D", "S", "_", "S", "t", "o", "r", "e">>
      [] f = "README.txt" -> <<"R", "E", "A", "D", "M", "E", ".", "t", "x", "t">>
      [] f = "logo.gif" -> <<"l", "o", "g", "o", ".", "g", "i", "f">>
      [] f = "res/mipmap-hdpi/ic.png" -> <<"r", "e", "s", "/", "m", "i", "p", "m", "a", "p", "-", "h", "d", "p", "i", "/", "i", "c", ".", "p", "n", "g">>

PlainFile ==
    [ link |-> FALSE, isfile |-> TRUE, exec |-> FALSE, binary |-> FALSE,
      image |-> FALSE, suspects |-> << >>, repos |-> 0, dexloader |-> FALSE ]

FileAttr(f) ==
    CASE f = "lib/gradle-wrapper.jar" -> [PlainFile EXCEPT !.binary = TRUE]
      [] f = "lib/x.apk" -> [PlainFile EXCEPT !.binary = TRUE]
      [] f = "lib/a.jar" -> [PlainFile EXCEPT !.binary = TRUE, !.suspects = <<1>>]
      [] f = "src/test/b.so.1" -> [PlainFile EXCEPT !.binary = TRUE, !.exec = TRUE]
      [] f = "build.gradle" -> [PlainFile EXCEPT !.suspects = <<0, 1>>, !.repos = 2]
      [] f = "X.java" -> [PlainFile EXCEPT !.dexloader = TRUE]
      [] f = "bin" -> [PlainFile EXCEPT !.binary = TRUE, !.exec = TRUE]
      [] f = "res/drawable/i.png" -> [PlainFile EXCEPT !.binary = TRUE, !.exec = TRUE, !.image = TRUE]
      [] f = "lib/run.sh" -> [PlainFile EXCEPT !.binary = TRUE, !.exec = TRUE]
      [] f = "lnk.apk" -> [PlainFile EXCEPT !.link = TRUE]
      [] f = "logo.gif" -> [PlainFile EXCEPT !.binary = TRUE, !.exec = TRUE, !.image = TRUE]
      [] f = "res/mipmap-hdpi/ic.png" -> [PlainFile EXCEPT !.binary = TRUE, !.exec = TRUE]
      [] f = "gradlew" -> [PlainFile EXCEPT !.exec = TRUE]
      [] f = ".git/gradlew" -> [PlainFile EXCEPT !.exec = TRUE]
      [] OTHER -> PlainFile

(***************************************************************************)
(* The entries scanignore and scandelete are drawn from.  An entry is      *)
(* named by its key (the glob of the build's metadata); PathsOf gives the  *)
(* paths common.getpaths_map expanded it to, in order.                     *)
(***************************************************************************)
EntryIds == { "lib", "lib/*.jar", "none*", "src" }

PathsOf(k) ==
    CASE k = "lib" -> << <<"l", "i", "b">> >>
      [] k = "lib/*.jar" -> << <<"l", "i", "b", "/", "a", ".", "j", "a", "r">>, <<"l", "i", "b", "/", "g", "r", "a", "d", "l", "e", "-", "w", "r", "a", "p", "p", "e", "r", ".", "j", "a", "r">> >>
      [] k = "none*" -> << >>
      [] k = "src" -> << <<"s", "r", "c">> >>

(***************************************************************************)
(* Bounds of the scan's inputs.                                            *)
(***************************************************************************)
MaxFiles == 2
MaxPolicy == 2

(***************************************************************************)
(* scan_source.                                                            *)
(***************************************************************************)
DEFAULT_JSON_PER_BUILD == [errors |-> << >>, warnings |-> << >>, infos |-> << >>]

\* what ScannerTool() can end with when _get_tool builds it: the tool, or the
\* exception of _scanner_cachedir / of loading the signature cache
ToolOutcomes == { "ScannerTool", "ConfigurationException", "JSONDecodeError" }

\* the first entry of a policy table, in the dict's order, one of whose paths is a
\* prefix of the path: its index, or 0
PrefixOf(k, f) == \E j \in 1..Len(PathsOf(k)) : StartsWith(PathOf(f), PathsOf(k)[j])

\* path_in_build_dir.startswith(p), for every entry's paths and every file
PrefixTable == [k \in EntryIds |-> { f \in FileIds : PrefixOf(k, f) }]

FirstMatch(table, f) ==
    LET hits == { i \in 1..Len(table) : f \in PrefixTable[table[i]] }
    IN  IF hits = {} THEN 0 ELSE CHOOSE i \in hits : \A h \in hits : i <= h

\* The running state of a scan that the problem handlers read and change:
\* [tree, count, jpb, iw, dw] for tree, count, json_per_build and the two worked sets.
\* a slip: every entry with a matching path is marked, not only the first
toignore_MarkAll(st, f) ==
    LET hit == { scanignore[i] : i \in { j \in 1..Len(scanignore) : f \in PrefixTable[scanignore[j]] } }
    IN  IF hit = {} THEN [hit |-> FALSE, st |-> st]
        ELSE [hit |-> TRUE, st |-> [st EXCEPT !.iw = @ \cup hit]]

toignore(st, f) ==
    LET i == FirstMatch(scanignore, f)
    IN  IF i = 0 THEN [hit |-> FALSE, st |-> st]
        ELSE [hit |-> TRUE, st |-> [st EXCEPT !.iw = @ \cup {scanignore[i]}]]

todelete(st, f) ==
    LET i == FirstMatch(scandelete, f)
    IN  IF i = 0 THEN [hit |-> FALSE, st |-> st]
        ELSE [hit |-> TRUE, st |-> [st EXCEPT !.dw = @ \cup {scandelete[i]}]]

ignoreproblem(st, what, f) ==
    [st EXCEPT !.jpb.infos = Append(@, <<"Ignoring", what, f>>)]

\* a slip: no except clause; a file that is already gone is counted as a problem
removeproblem_CountsAbsent(st, what, f) ==
    [st EXCEPT !.jpb.infos = Append(@, <<"Removing", what, f>>),
               !.tree = @ \ {f},
               !.count = IF f \in st.tree THEN @ ELSE @ + 1]

\* os.remove deletes the file; FileNotFoundError for one already gone is passed over
removeproblem(st, what, f) ==
    [st EXCEPT !.jpb.infos = Append(@, <<"Removing", what, f>>),
               !.tree = @ \ {f}]

warnproblem(st, what, f) ==
    LET ig == toignore(st, f)
    IN  IF ig.hit THEN ig.st
        ELSE [st EXCEPT !.jpb.warnings = Append(@, <<what, f>>)]

IsTestPath(p) == Contains(p, S_src_test) \/ Contains(p, S_slash_test_slash)

TestPaths == { f \in FileIds : IsTestPath(PathOf(f)) }

\* a slip: scandelete is consulted, and its entry marked, also for an ignored finding
handleproblem_MarksBoth(st, what, f) ==
    LET ig == toignore(st, f)
        dl == todelete(ig.st, f)
    IN  IF ig.hit THEN ignoreproblem(dl.st, what, f)
        ELSE IF dl.hit THEN removeproblem(dl.st, what, f)
        ELSE IF f \in TestPaths THEN warnproblem(dl.st, what, f)
        ELSE [dl.st EXCEPT !.jpb.errors = IF options = "json" THEN Append(@, <<what, f>>) ELSE @,
                           !.count = @ + 1]

\* a slip: the hard error is counted and never recorded
handleproblem_ErrorsUnrecorded(st, what, f) ==
    LET ig == toignore(st, f)
        dl == todelete(ig.st, f)
    IN  IF ig.hit THEN ignoreproblem(ig.st, what, f)
        ELSE IF dl.hit THEN removeproblem(dl.st, what, f)
        ELSE IF f \in TestPaths THEN warnproblem(dl.st, what, f)
        ELSE [dl.st EXCEPT !.count = @ + 1]

\* a slip: scandelete is consulted before scanignore
handleproblem_DeleteFirst(st, what, f) ==
    LET dl == todelete(st, f)
        ig == toignore(dl.st, f)
    IN  IF dl.hit THEN removeproblem(dl.st, what, f)
        ELSE IF ig.hit THEN ignoreproblem(ig.st, what, f)
        ELSE IF f \in TestPaths THEN warnproblem(ig.st, what, f)
        ELSE [ig.st EXCEPT !.jpb.errors = IF options = "json" THEN Append(@, <<what, f>>) ELSE @,
                           !.count = @ + 1]

handleproblem(st, what, f) ==
    LET ig == toignore(st, f)
        dl == todelete(ig.st, f)
    IN  IF ig.hit THEN ignoreproblem(ig.st, what, f)
        ELSE IF dl.hit THEN removeproblem(dl.st, what, f)
        ELSE IF f \in TestPaths THEN warnproblem(dl.st, what, f)
        ELSE [dl.st EXCEPT !.jpb.errors = IF options = "json" THEN Append(@, <<what, f>>) ELSE @,
                           !.count = @ + 1]

is_executable(st, f) == f \in st.tree /\ FileAttr(f).exec

\* re.match(r'.*\.so(\..+)*$', curfile)
IsSharedLibrary(curfile) ==
    \E i \in 1..Len(curfile) :
        /\ OccursAt(curfile, X_so, i)
        /\ LET rest == SubSeq(curfile, i + Len(X_so), Len(curfile))
           IN  rest = << >> \/ (Len(rest) >= 2 /\ rest[1] = ".")

\* r".*/drawable[^/]*/.*\.png$" and r".*/mipmap[^/]*/.*\.png$"
MatchesSafe(p, word) ==
    \E i \in 1..Len(p) : \E j \in 1..Len(p) :
        /\ OccursAt(p, word, i)
        /\ j >= i + Len(word)
        /\ p[j] = "/"
        /\ \A k \in (i + Len(word))..(j - 1) : p[k] # "/"
        /\ EndsWith(p, X_png)
        /\ Len(p) - Len(X_png) >= j

safe_path(p) == MatchesSafe(p, S_slash_drawable) \/ MatchesSafe(p, S_slash_mipmap)

\* the branch of the if/elif chain a file name takes
Rule(f) ==
    LET curfile == Basename(PathOf(f))
    IN  IF curfile \in {S_gradle_wrapper_jar, S_gradlew, S_gradlew_bat} THEN "buildtool"
        ELSE IF EndsWith(curfile, X_apk) THEN "apk"
        ELSE IF EndsWith(curfile, X_a) THEN "static library"
        ELSE IF EndsWith(curfile, X_aar) THEN "Android AAR library"
        ELSE IF EndsWith(curfile, X_class) THEN "Java compiled class"
        ELSE IF EndsWith(curfile, X_dex) THEN "Android DEX code"
        ELSE IF EndsWith(curfile, X_gz) THEN "gzip file archive"
        ELSE IF IsSharedLibrary(curfile) THEN "shared library"
        ELSE IF EndsWith(curfile, X_zip) THEN "ZIP file archive"
        ELSE IF EndsWith(curfile, X_jar) THEN "jar"
        ELSE IF EndsWith(curfile, X_java) THEN "java"
        ELSE IF EndsWith(curfile, X_gradle) \/ EndsWith(curfile, X_gradle_kts) THEN "gradle"
        ELSE IF SplitExt(PathOf(f)) \in {<< >>, X_bin, X_out, X_exe} THEN "noext"
        ELSE "other"

RuleTable == [f \in FileIds |-> Rule(f)]

HardRules ==
    { "static library", "Android AAR library", "Java compiled class", "Android DEX code",
      "gzip file archive", "shared library", "ZIP file archive" }

\* n copies of what
Repeat(what, n) == [i \in 1..n |-> what]

RECURSIVE SuspectFindings(_)
SuspectFindings(queries) ==
    IF queries = << >> THEN << >>
    ELSE Repeat("usual suspect", Head(queries)) \o SuspectFindings(Tail(queries))

\* the findings a file's branch hands to handleproblem, in order
Findings(f) ==
    LET r == RuleTable[f]
        a == FileAttr(f)
    IN  IF r \in HardRules THEN <<r>>
        ELSE IF r = "jar" THEN SuspectFindings(a.suspects) \o <<"Java JAR file">>
        ELSE IF r = "java" THEN IF a.isfile /\ a.dexloader THEN <<"DexClassLoader">> ELSE << >>
        ELSE IF r = "gradle"
             THEN IF a.isfile
                  THEN SuspectFindings(a.suspects) \o Repeat("unknown maven repo", a.repos)
                  ELSE << >>
        ELSE IF r = "noext" THEN IF a.binary THEN <<"binary">> ELSE << >>
        ELSE << >>

RECURSIVE HandleAll(_, _, _)
HandleAll(st, whats, f) ==
    IF whats = << >> THEN st
    ELSE HandleAll(handleproblem(st, Head(whats), f), Tail(whats), f)

\* whether the file's branch calls suspects_found, and with it _get_tool()
CallsGetTool(f) ==
    \/ RuleTable[f] = "jar"
    \/ RuleTable[f] = "gradle" /\ FileAttr(f).isfile /\ FileAttr(f).suspects # << >>

\* the body of the loop over files, for one file
\* a slip: an executable binary takes the disposition pipeline like the other binaries
ScanFile_ExecThroughPolicy(st, f) ==
    LET r == RuleTable[f]
        a == FileAttr(f)
    IN  IF Basename(PathOf(f)) = S_DS_Store THEN st
        ELSE IF a.link THEN st
        ELSE IF r = "buildtool" THEN removeproblem(st, "buildtool", f)
        ELSE IF r = "apk" THEN removeproblem(st, "Android APK file", f)
        ELSE IF r = "other"
             THEN IF is_executable(st, f) /\ a.binary /\ ~(safe_path(PathOf(f)) \/ a.image)
                  THEN handleproblem(st, "executable binary, possibly code", f)
                  ELSE st
        ELSE HandleAll(st, Findings(f), f)

\* a slip: an .apk takes the disposition pipeline like the other binaries
ScanFile_ApkThroughPolicy(st, f) ==
    LET r == RuleTable[f]
        a == FileAttr(f)
    IN  IF Basename(PathOf(f)) = S_DS_Store THEN st
        ELSE IF a.link THEN st
        ELSE IF r = "buildtool" THEN removeproblem(st, "buildtool", f)
        ELSE IF r = "apk" THEN handleproblem(st, "Android APK file", f)
        ELSE IF r = "other"
             THEN IF is_executable(st, f) /\ a.binary /\ ~(safe_path(PathOf(f)) \/ a.image)
                  THEN warnproblem(st, "executable binary, possibly code", f)
                  ELSE st
        ELSE HandleAll(st, Findings(f), f)

SafePaths == { f \in FileIds : safe_path(PathOf(f)) }

Skipped == { f \in FileIds : Basename(PathOf(f)) = S_DS_Store }

ScanFile(st, f) ==
    LET r == RuleTable[f]
        a == FileAttr(f)
    IN  IF f \in Skipped THEN st
        ELSE IF a.link THEN st
        ELSE IF r = "buildtool" THEN removeproblem(st, "buildtool", f)
        ELSE IF r = "apk" THEN removeproblem(st, "Android APK file", f)
        ELSE IF r = "other"
             THEN IF is_executable(st, f) /\ a.binary /\ ~(f \in SafePaths \/ a.image)
                  THEN warnproblem(st, "executable binary, possibly code", f)
                  ELSE st
        ELSE HandleAll(st, Findings(f), f)

\* os.walk never descends into a directory named .hg, .git, .svn or .bzr
Walked(f) == DirNames(PathOf(f)) \cap VcsDirs = {}

WalkedFiles == { f \in FileIds : Walked(f) }

ScanState == [tree |-> tree, count |-> count, jpb |-> json_per_build,
              iw |-> scanignore_worked, dw |-> scandelete_worked]

\* the tables a policy is drawn from: at most n distinct keys, in some order
Tables(n) ==
    { s \in UNION { [1..m -> EntryIds] : m \in 0..n } :
        \A i \in DOMAIN s : \A j \in DOMAIN s : i # j => s[i] # s[j] }

ScanInit ==
    /\ files0 \in { t \in SUBSET FileIds : Cardinality(t) <= MaxFiles }
    /\ tree = files0
    /\ todo = files0 \cap WalkedFiles
    /\ scanignore \in Tables(MaxPolicy)
    /\ scandelete \in Tables(MaxPolicy - Len(scanignore))
    /\ scanignore_worked = {}
    /\ scandelete_worked = {}
    /\ options \in {"None", "json", "nojson"}
    /\ json_per_build = DEFAULT_JSON_PER_BUILD
    /\ count = 0
    /\ SCANNER_TOOL = "None"
    /\ scan_pc = "walk"
    /\ scan_exc = "none"

\* one pass of the loop over files: os.walk yields f and its branch runs
VisitFile(f) ==
    /\ scan_pc = "walk"
    /\ f \in todo
    /\ todo' = todo \ {f}
    /\ \E built \in (IF CallsGetTool(f) /\ ~FileAttr(f).link /\ SCANNER_TOOL = "None"
                     THEN ToolOutcomes ELSE {SCANNER_TOOL}) :
         IF built \notin {"None", "ScannerTool"}
         THEN /\ scan_pc' = "raised"
              /\ scan_exc' = built
              /\ UNCHANGED << tree, scanignore_worked, scandelete_worked,
                              json_per_build, count, SCANNER_TOOL >>
         ELSE LET st == ScanFile(ScanState, f)
              IN  /\ SCANNER_TOOL' = built
                  /\ tree' = st.tree
                  /\ count' = st.count
                  /\ json_per_build' = st.jpb
                  /\ scanignore_worked' = st.iw
                  /\ scandelete_worked' = st.dw
                  /\ scan_pc' = "walk"
                  /\ UNCHANGED scan_exc
    /\ UNCHANGED << files0, scanignore, scandelete, options >>
    /\ UNCHANGED << cacheVars, zipVars, mainVars >>

\* the keys of a table that never worked
Unused(table, worked) == { i \in 1..Len(table) : table[i] \notin worked }

\* after the walk: the unused entries are counted and count is returned
FinishScan ==
    /\ scan_pc = "walk"
    /\ todo = {}
    /\ count' = count + Cardinality(Unused(scanignore, scanignore_worked))
                      + Cardinality(Unused(scandelete, scandelete_worked))
    /\ scan_pc' = "done"
    /\ UNCHANGED << files0, tree, todo, scanignore, scandelete, scanignore_worked,
                    scandelete_worked, options, json_per_build, SCANNER_TOOL, scan_exc >>
    /\ UNCHANGED << cacheVars, zipVars, mainVars >>

ScanNext == (\E f \in FileIds : VisitFile(f)) \/ FinishScan

\* the scan's variables while another part of the program runs
ScanIdle ==
    /\ files0 = {} /\ tree = {} /\ todo = {}
    /\ scanignore = << >> /\ scandelete = << >>
    /\ scanignore_worked = {} /\ scandelete_worked = {}
    /\ options = "None"
    /\ json_per_build = DEFAULT_JSON_PER_BUILD
    /\ count = 0
    /\ SCANNER_TOOL = "None"
    /\ scan_pc = "idle"
    /\ scan_exc = "none"

(***************************************************************************)
(* Claims about scan_source.                                               *)
(***************************************************************************)
\* the step of the walk that visits f and runs its branch to the end
Visits(f) == scan_pc = "walk" /\ f \in todo /\ todo' = todo \ {f} /\ scan_pc' = "walk"

\* the files whose branch hands its findings to handleproblem
ThroughHandleproblem ==
    { f \in FileIds : f \notin Skipped /\ ~FileAttr(f).link
                      /\ RuleTable[f] \notin {"buildtool", "apk", "other"} }

IgnoreMatches(f) == \E i \in 1..Len(scanignore) : f \in PrefixTable[scanignore[i]]
DeleteMatches(f) == \E i \in 1..Len(scandelete) : f \in PrefixTable[scandelete[i]]

\* the precedence of C1, for the files of a set S
PrecedenceStep(S) ==
    \A f \in S :
        Visits(f) =>
            /\ IgnoreMatches(f) => (f \in tree => f \in tree') /\ count' = count
            /\ (DeleteMatches(f) /\ ~IgnoreMatches(f)) =>
                   json_per_build'.warnings = json_per_build.warnings /\ count' = count
            /\ (f \in TestPaths /\ ~IgnoreMatches(f) /\ ~DeleteMatches(f)) =>
                   count' = count

\* C1 as stated: for every finding scan_source produces, an ignore prefix keeps the
\* file and the count, a delete prefix (and no ignore prefix) never warns and never
\* counts, a test path under neither never counts.
C1_EveryFinding == [][PrecedenceStep(FileIds)]_scanVars

\* C1, amended: the precedence ignore > delete > test path > error holds for every
\* finding scan_source hands to handleproblem: there an ignore prefix keeps the file
\* and the count, a delete prefix (and no ignore prefix) never warns and never counts,
\* and a test path under neither never counts.
C1_HandleproblemPrecedence == [][PrecedenceStep(ThroughHandleproblem)]_scanVars

\* a finding was ignored for a file that a delete prefix matches too, and the file
\* is still there and nothing was counted
C1_Witness ==
    /\ count = 0
    /\ \E i \in 1..Len(json_per_build.infos) :
         LET e == json_per_build.infos[i]
         IN  /\ e[1] = "Ignoring"
             /\ e[3] \in tree
             /\ e[3] \in ThroughHandleproblem
             /\ DeleteMatches(e[3])

\* the files of the tree with a finding that consults scanignore: the findings
\* handed to handleproblem, and the executable binary handed to warnproblem
ConsultsIgnore ==
    { f \in files0 \cap WalkedFiles :
        \/ f \in ThroughHandleproblem /\ Findings(f) # << >>
        \/ /\ f \notin Skipped /\ ~FileAttr(f).link /\ RuleTable[f] = "other"
           /\ FileAttr(f).exec /\ FileAttr(f).binary
           /\ ~(f \in SafePaths \/ FileAttr(f).image) }

\* the files of the tree with a finding that consults scandelete
ConsultsDelete ==
    { f \in files0 \cap WalkedFiles :
        f \in ThroughHandleproblem /\ Findings(f) # << >> /\ ~IgnoreMatches(f) }

\* the first key of the table (a sequence of keys) with a path that is a prefix of f
IsFirstMatchOf(table, i, f) ==
    f \in PrefixTable[table[i]] /\ \A j \in 1..(i - 1) : f \notin PrefixTable[table[j]]

NeverFired(table, consulting) ==
    { i \in 1..Len(table) : \A f \in consulting : ~IsFirstMatchOf(table, i, f) }

MatchesNoFile(table) ==
    { i \in 1..Len(table) : \A f \in files0 : f \notin PrefixTable[table[i]] }

Returns == scan_pc = "walk" /\ scan_pc' = "done"

\* C2 as stated: the return adds one hard error for each entry whose paths are a
\* prefix of no file of the tree, and none for an entry that matches a file.
C2_MatchesNoFile ==
    [][Returns => count' - count = Cardinality(MatchesNoFile(scanignore))
                                   + Cardinality(MatchesNoFile(scandelete))]_scanVars

\* C2, amended: the return adds exactly one hard error for each scanignore or
\* scandelete entry that no finding fired (no finding that consults the table has
\* it as the first entry with a prefix of its path), and none for an entry that
\* fired; an entry that matches no file never fires, so it adds exactly one.
C2_UnusedEntries ==
    [][Returns =>
          /\ count' - count = Cardinality(NeverFired(scanignore, ConsultsIgnore))
                              + Cardinality(NeverFired(scandelete, ConsultsDelete))
          /\ MatchesNoFile(scanignore) \subseteq NeverFired(scanignore, ConsultsIgnore)
          /\ MatchesNoFile(scandelete) \subseteq NeverFired(scandelete, ConsultsDelete)]_scanVars

\* the scan returned with two unused entries counted: one that matches no file, and
\* one that matches a file of the tree and still never fired
C2_Witness ==
    /\ scan_pc = "done"
    /\ count = 2
    /\ json_per_build.errors = << >> /\ options = "json"
    /\ MatchesNoFile(scanignore) # {}
    /\ \E i \in 1..Len(scandelete) :
         /\ i \notin MatchesNoFile(scandelete)
         /\ scandelete[i] \notin scandelete_worked

\* the build tool artifacts and packaged binaries of rule 1
IsArtifact(f) ==
    \/ Basename(PathOf(f)) \in {S_gradle_wrapper_jar, S_gradlew, S_gradlew_bat}
    \/ EndsWith(Basename(PathOf(f)), X_apk)

Artifacts == { f \in FileIds : IsArtifact(f) /\ ~FileAttr(f).link }

EntriesFor(list, f) == { i \in 1..Len(list) : list[i][Len(list[i])] = f }

\* what C8 says of the files of a set S: the visit removes the file, appends one
\* 'Removing' info, counts nothing and records nothing else (RemovedByVisit); after
\* the scan the file is gone and that info is the only entry about it (GoneAfterScan)
RemovedByVisit(S) ==
    \A f \in S : Visits(f) =>
        /\ f \notin tree'
        /\ count' = count
        /\ Len(json_per_build'.infos) = Len(json_per_build.infos) + 1
        /\ json_per_build'.infos[Len(json_per_build'.infos)][1] = "Removing"
        /\ json_per_build'.infos[Len(json_per_build'.infos)][3] = f
        /\ json_per_build'.warnings = json_per_build.warnings
        /\ json_per_build'.errors = json_per_build.errors
        /\ scanignore_worked' = scanignore_worked
        /\ scandelete_worked' = scandelete_worked

GoneAfterScan(S) ==
    scan_pc = "done" =>
        \A f \in S \cap files0 :
            /\ f \notin tree
            /\ Cardinality(EntriesFor(json_per_build.infos, f)) = 1
            /\ EntriesFor(json_per_build.warnings, f) = {}
            /\ EntriesFor(json_per_build.errors, f) = {}

\* C8 as stated: every non-symlink file named gradle-wrapper.jar, gradlew or
\* gradlew.bat or ending in .apk is removed by the scan, with one 'Removing' info
\* and nothing counted, whatever the policy.
C8_EveryArtifact == [][RemovedByVisit(Artifacts)]_scanVars /\ [](GoneAfterScan(Artifacts))

\* C8, amended: every such file that the walk reaches (one not below a directory
\* named .hg, .git, .svn or .bzr, which os.walk is told to skip) is removed by the
\* scan whatever the ignore and delete policy says: one 'Removing' info, nothing
\* counted, no later rule applied, and the file is gone after the scan.
C8_WalkedArtifacts ==
    /\ [][RemovedByVisit(Artifacts \cap WalkedFiles)]_scanVars
    /\ [](GoneAfterScan(Artifacts \cap WalkedFiles))

\* the scan returned having removed a .jar-named build tool artifact that an ignore
\* prefix and a delete prefix both match
C8_Witness ==
    /\ scan_pc = "done"
    /\ \E f \in (Artifacts \cap WalkedFiles) \cap files0 :
         /\ f \notin tree
         /\ EndsWith(PathOf(f), X_jar)
         /\ IgnoreMatches(f)
         /\ DeleteMatches(f)

\* C11: when ConfigurationException leaves scan_source (the configuration has no
\* 'cachedir_scanner'), no file of the tree has been classified, recorded in the
\* report or deleted: the tree, the report and the count are as the scan found them.
C11_RaisedBeforeScanning ==
    scan_exc = "ConfigurationException" =>
        /\ tree = files0
        /\ json_per_build = DEFAULT_JSON_PER_BUILD
        /\ count = 0

\* the files whose findings reach handleproblem and match no ignore prefix, no
\* delete prefix and no test path
Unmatched ==
    { f \in ThroughHandleproblem :
        ~IgnoreMatches(f) /\ ~DeleteMatches(f) /\ f \notin TestPaths }

\* the last n entries of the errors list are the findings of f, in order
ErrorsRecorded(f, errors, n) ==
    /\ Len(errors) >= n
    /\ \A i \in 1..n :
         errors[Len(errors) - n + i] = <<Findings(f)[Len(Findings(f)) - n + i], f>>

\* C13 as stated: every finding that reaches handleproblem and matches no ignore
\* prefix, no delete prefix and no test path adds one entry to the errors list and
\* one to the count, and during the walk the errors list is as long as the count.
C13_ErrorsEqualCount ==
    /\ [][\A f \in Unmatched : Visits(f) =>
             /\ count' = count + Len(Findings(f))
             /\ Len(json_per_build'.errors) = Len(json_per_build.errors) + Len(Findings(f))]_scanVars
    /\ [](scan_pc = "walk" => Len(json_per_build.errors) = count)

\* C13, amended: every such finding adds exactly one to the count; it is recorded
\* as one entry [what, path] of the errors list when options.json is set, and not
\* recorded at all otherwise.  So during the walk the errors list is as long as the
\* count when options.json is set, and empty when it is not.
C13_ErrorsRecordedUnderJson ==
    /\ [][\A f \in Unmatched : Visits(f) =>
             /\ count' = count + Len(Findings(f))
             /\ json_per_build'.warnings = json_per_build.warnings
             /\ json_per_build'.infos = json_per_build.infos
             /\ f \in tree => f \in tree'
             /\ IF options = "json"
                THEN /\ Len(json_per_build'.errors) = Len(json_per_build.errors) + Len(Findings(f))
                     /\ ErrorsRecorded(f, json_per_build'.errors, Len(Findings(f)))
                ELSE json_per_build'.errors = json_per_build.errors]_scanVars
    /\ [](scan_pc = "walk" =>
             IF options = "json" THEN Len(json_per_build.errors) = count
             ELSE json_per_build.errors = << >>)

\* with options.json set the scan returned two hard errors of one file, both
\* recorded, and no policy entry
C13_Witness ==
    /\ scan_pc = "done"
    /\ options = "json"
    /\ scanignore = << >> /\ scandelete = << >>
    /\ count = 2
    /\ Len(json_per_build.errors) = 2
    /\ json_per_build.errors[1][2] = json_per_build.errors[2][2]
    /\ json_per_build.errors[1][2] \in Unmatched

\* the executable files with binary content that no earlier rule of the walk takes
ExecBinaries ==
    { f \in FileIds \ Skipped :
        /\ ~FileAttr(f).link
        /\ RuleTable[f] = "other"
        /\ FileAttr(f).exec /\ FileAttr(f).binary }

\* C14: the visit of an executable binary that no earlier rule takes adds nothing
\* to the count, records no error and no info, keeps the file and marks no
\* scandelete entry, whatever the policy; it appends one warning for the file
\* unless an ignore prefix matches the path, the path matches a safe_paths
\* pattern or the file is an image, and then it appends none.
C14_ExecutableBinarySoft ==
    [][\A f \in ExecBinaries : Visits(f) =>
          /\ count' = count
          /\ json_per_build'.errors = json_per_build.errors
          /\ json_per_build'.infos = json_per_build.infos
          /\ tree' = tree
          /\ scandelete_worked' = scandelete_worked
          /\ json_per_build'.warnings =
                IF IgnoreMatches(f) \/ f \in SafePaths \/ FileAttr(f).image
                THEN json_per_build.warnings
                ELSE Append(json_per_build.warnings,
                            <<"executable binary, possibly code", f>>)]_scanVars

\* the scan returned having warned of an executable binary below a delete prefix,
\* with the file still there, and having passed over an image and over a file of a
\* known-safe path without a warning
C14_Witness ==
    /\ scan_pc = "done"
    /\ \E f \in ExecBinaries \cap files0 :
         /\ DeleteMatches(f)
         /\ f \in tree
         /\ json_per_build.warnings = << <<"executable binary, possibly code", f>> >>
         /\ json_per_build.errors = << >>
    /\ \E f \in ExecBinaries \cap files0 :
         (f \in SafePaths /\ ~FileAttr(f).image) \/ (FileAttr(f).image /\ f \notin SafePaths)

\* the files whose findings handleproblem hands to removeproblem
DeletedByPolicy ==
    { f \in ThroughHandleproblem : DeleteMatches(f) /\ ~IgnoreMatches(f) }

\* C15: when the walk visits a file with n >= 1 findings whose path matches a
\* delete prefix and no ignore prefix, the file is removed once and the tree is
\* the same for every n; each of the n findings appends its 'Removing' info, none
\* adds to the count and none records an error or a warning.  And removeproblem
\* applied again to a file it has removed changes neither the tree nor the count.
C15_DeleteIdempotent ==
    /\ [][\A f \in DeletedByPolicy : (Visits(f) /\ Findings(f) # << >>) =>
             /\ tree' = tree \ {f}
             /\ count' = count
             /\ json_per_build'.infos =
                   json_per_build.infos
                       \o [i \in 1..Len(Findings(f)) |-> <<"Removing", Findings(f)[i], f>>]
             /\ json_per_build'.errors = json_per_build.errors
             /\ json_per_build'.warnings = json_per_build.warnings]_scanVars
    /\ [](\A f \in files0 :
             LET once == removeproblem(ScanState, "finding", f)
                 twice == removeproblem(once, "finding", f)
             IN  /\ twice.tree = once.tree
                 /\ twice.count = once.count
                 /\ twice.jpb.infos = Append(once.jpb.infos, <<"Removing", "finding", f>>))

\* the scan returned having removed a file for two findings: two 'Removing' infos
\* for it, nothing counted
C15_Witness ==
    /\ scan_pc = "done"
    /\ count = 0
    /\ \E f \in DeletedByPolicy \cap files0 :
         /\ Len(Findings(f)) >= 2
         /\ f \notin tree
         /\ Cardinality(EntriesFor(json_per_build.infos, f)) = Len(Findings(f))
         /\ \A i \in EntriesFor(json_per_build.infos, f) : json_per_build.infos[i][1] = "Removing"

\* the key of the first entry of a table with a prefix of the path of f, if any
FirstKey(table, f) ==
    IF FirstMatch(table, f) = 0 THEN {} ELSE { table[FirstMatch(table, f)] }

Keys(table) == { table[i] : i \in 1..Len(table) }

\* the entries of scanignore that are the first match of no file of the tree, and
\* those of scandelete that are the first match of no file that scanignore passes
Shadowed(table, candidates) ==
    { i \in 1..Len(table) : \A f \in candidates : FirstMatch(table, f) # i }

\* C16: the findings of a visited file mark at most one policy entry: the first
\* scanignore entry with a prefix of the path or, only when no scanignore prefix
\* matches, the first such scandelete entry.  The fired sets only grow and hold
\* only configured entries.  An entry that is the first match of no file (every
\* file it matches is claimed by an earlier entry, or for scandelete by scanignore)
\* is not in its fired set when the scan returns, and the return counts it.
C16_FirstEntryMarked ==
    /\ [][\A f \in FileIds : Visits(f) =>
             /\ scanignore_worked \subseteq scanignore_worked'
             /\ scandelete_worked \subseteq scandelete_worked'
             /\ scanignore_worked' \subseteq scanignore_worked \cup FirstKey(scanignore, f)
             /\ scandelete_worked' \subseteq scandelete_worked \cup FirstKey(scandelete, f)
             /\ scandelete_worked' # scandelete_worked => ~IgnoreMatches(f)
             /\ Cardinality(scanignore_worked' \ scanignore_worked)
                    + Cardinality(scandelete_worked' \ scandelete_worked) <= 1]_scanVars
    /\ [](/\ scanignore_worked \subseteq Keys(scanignore)
          /\ scandelete_worked \subseteq Keys(scandelete))
    /\ [][Returns =>
             LET si == Shadowed(scanignore, files0)
                 sd == Shadowed(scandelete, { f \in files0 : ~IgnoreMatches(f) })
             IN  /\ \A i \in si : scanignore[i] \notin scanignore_worked
                 /\ \A i \in sd : scandelete[i] \notin scandelete_worked
                 /\ count' - count >= Cardinality(si) + Cardinality(sd)
                 /\ scanignore_worked' = scanignore_worked
                 /\ scandelete_worked' = scandelete_worked]_scanVars

\* the scan returned with an entry fired and with a later entry of the same table
\* unfired and counted, although a path of the later entry is a prefix of the
\* file that fired the first
C16_Witness ==
    /\ scan_pc = "done"
    /\ Len(scanignore) = 2
    /\ scanignore[1] \in scanignore_worked
    /\ scanignore[2] \notin scanignore_worked
    /\ count = 1
    /\ \E f \in files0 : PrefixOf(scanignore[1], f) /\ PrefixOf(scanignore[2], f)

(***************************************************************************)
(* SignatureDataController: the signature cache.                           *)
(*                                                                         *)
(* A Python value is [type |-> "dict", d |-> f] with f a function on its   *)
(* keys, or [type |-> "list", d |-> << >>] (a document that is no dict).   *)
(* A key of the signatures mapping is <<"str", s>> or <<"int", s>> (s the  *)
(* key's text): YAML yields int keys, JSON only str keys.  A timestamp is  *)
(* [kind, day]: "aware" (an ISO string with an offset, the day it names),  *)
(* "naive" (an ISO string without offset), "invalid" (a string that is no  *)
(* ISO date) or "notstr" (a number).  A JSON document has the same shape   *)
(* with the plain text of each key.                                        *)
(***************************************************************************)
SCANNER_CACHE_VERSION == 1

cache_outdated_interval == 7

MaxDay == 1

valid_keys == {"timestamp", "version", "signatures"}

TimestampVals ==
    [kind : {"aware"}, day : 0..MaxDay]
        \cup [kind : {"naive", "invalid", "notstr"}, day : {0}]

SigCode == [code_signatures |-> <<"com/tracker">>, gradle_signatures |-> << >>]
SigGradle == [code_signatures |-> << >>, gradle_signatures |-> <<"com.tracker">>]

\* the signatures mappings of Python data: no rule, or one rule under a str or an int key
PySigMaps == { << >>, (<<"str", "a">> :> SigCode), (<<"int", "1">> :> SigGradle) }

\* a function on at most the key k
Opt(k, vals) == { << >> } \cup { (k :> v) : v \in vals }

PyDicts ==
    { a @@ b @@ c @@ e :
        a \in Opt("version", {SCANNER_CACHE_VERSION, SCANNER_CACHE_VERSION + 1}),
        b \in Opt("timestamp", TimestampVals),
        c \in Opt("signatures", PySigMaps),
        e \in Opt("extra", {"x"}) }

PyDict(f) == [type |-> "dict", d |-> f]
PyList == [type |-> "list", d |-> << >>]

PyValues == { PyDict(f) : f \in PyDicts } \cup { PyList }

WebDoc(version, day, sigs) ==
    ("version" :> version) @@ ("timestamp" :> [kind |-> "aware", day |-> day])
        @@ ("signatures" :> sigs)

\* what yaml.safe_load returns for the fetched document: a document of the schema,
\* one with a further key, one of another version and with an int key, or a list
WebData ==
    { PyDict(WebDoc(SCANNER_CACHE_VERSION, MaxDay, (<<"str", "a">> :> SigGradle))),
      PyDict(WebDoc(SCANNER_CACHE_VERSION, MaxDay, (<<"str", "a">> :> SigCode)) @@ ("extra" :> "x")),
      PyDict(WebDoc(SCANNER_CACHE_VERSION + 1, 0, (<<"int", "1">> :> SigGradle))),
      PyList }

\* json.dump: an int key of a mapping is written as its text
JsonDumpSigs(m) ==
    [ t \in { k[2] : k \in DOMAIN m } |-> m[CHOOSE k \in DOMAIN m : k[2] = t] ]

JsonDump(py) ==
    IF py.type = "list" THEN [kind |-> "json", type |-> "list", d |-> << >>]
    ELSE [kind |-> "json", type |-> "dict",
          d |-> [ k \in DOMAIN py.d |->
                    IF k = "signatures" THEN JsonDumpSigs(py.d[k]) ELSE py.d[k] ]]

\* json.load: every key of a mapping is a str
JsonLoadSigs(j) == [ k \in { <<"str", t>> : t \in DOMAIN j } |-> j[k[2]] ]

JsonLoad(file) ==
    IF file.type = "list" THEN PyList
    ELSE PyDict([ k \in DOMAIN file.d |->
                    IF k = "signatures" THEN JsonLoadSigs(file.d[k]) ELSE file.d[k] ])

AbsentFile == [kind |-> "absent", type |-> "none", d |-> << >>]
\* a file whose text is no JSON document
UnparsableFile == [kind |-> "text", type |-> "none", d |-> << >>]

FileContents == { AbsentFile, UnparsableFile } \cup { JsonDump(py) : py \in PyValues }

\* the bundled data/scanner/scanner.json: a document of the cache's schema
Defaults ==
    PyDict( ("version" :> SCANNER_CACHE_VERSION)
            @@ ("timestamp" :> [kind |-> "aware", day |-> 0])
            @@ ("signatures" :> (<<"str", "a">> :> SigCode)) )

NotWritten == [type |-> "none", d |-> << >>]

Ok(data, file) == [exc |-> "none", data |-> data, file |-> file, fell_back |-> FALSE]
Raise(e, data, file) == [exc |-> e, data |-> data, file |-> file, fell_back |-> FALSE]

\* _scanner_cachedir(): the exception it raises, or "none"
scanner_cachedir == IF cache_config = "cachedir" THEN "none" ELSE "ConfigurationException"

check_data_version(data, file) ==
    IF data.type # "dict" THEN Raise("AttributeError", data, file)
    ELSE IF "version" \notin DOMAIN data.d \/ data.d["version"] # SCANNER_CACHE_VERSION
         THEN Raise("SignatureCacheMalformedException", data, file)
         ELSE Ok(data, file)

check_last_updated(data, file) ==
    IF data.type # "dict" THEN Raise("AttributeError", data, file)
    ELSE IF "timestamp" \notin DOMAIN data.d
         THEN Raise("SignatureCacheMalformedException", data, file)
    ELSE LET timestamp == data.d["timestamp"]
         IN  IF timestamp.kind \in {"invalid", "notstr"}
             THEN Raise("SignatureCacheMalformedException", data, file)
             ELSE IF timestamp.kind = "naive"
             THEN Raise("TypeError", data, file)
             ELSE IF timestamp.day + cache_outdated_interval < now
             THEN Raise("SignatureCacheOutdatedException", data, file)
             ELSE Ok(data, file)

load_from_defaults(data, file) == Ok(Defaults, file)

load_from_cache(data, file) ==
    IF scanner_cachedir # "none" THEN Raise(scanner_cachedir, data, file)
    ELSE IF file.kind = "absent" THEN Raise("SignatureCacheMalformedException", data, file)
    ELSE IF file.kind = "text" THEN Raise("JSONDecodeError", data, file)
    ELSE Ok(JsonLoad(file), file)

write_to_cache(data, file) ==
    IF scanner_cachedir # "none" THEN Raise(scanner_cachedir, data, file)
    ELSE Ok(data, JsonDump(data))

\* a slip: 'signatures' is missing from valid_keys
verify_data_DropsSignatures(data, file) ==
    IF data.type # "dict" THEN Raise("AttributeError", data, file)
    ELSE Ok(PyDict([ k \in DOMAIN data.d \cap {"timestamp", "version"} |-> data.d[k] ]), file)

verify_data(data, file) ==
    IF data.type # "dict" THEN Raise("AttributeError", data, file)
    ELSE Ok(PyDict([ k \in DOMAIN data.d \cap valid_keys |-> data.d[k] ]), file)

\* a slip: load checks the timestamp too, inside its try
load_ChecksFreshness(data, file) ==
    LET c == load_from_cache(data, file)
        v == IF c.exc = "none" THEN verify_data(c.data, c.file) ELSE c
        u == IF v.exc = "none" THEN check_last_updated(v.data, v.file) ELSE v
    IN  IF u.exc = "SignatureCacheMalformedException"
        THEN LET d == load_from_defaults(u.data, u.file)
                 w == write_to_cache(d.data, d.file)
             IN  [w EXCEPT !.fell_back = TRUE]
        ELSE u

load(data, file) ==
    LET c == load_from_cache(data, file)
        v == IF c.exc = "none" THEN verify_data(c.data, c.file) ELSE c
    IN  IF v.exc = "SignatureCacheMalformedException"
        THEN LET d == load_from_defaults(v.data, v.file)
                 w == write_to_cache(d.data, d.file)
             IN  [w EXCEPT !.fell_back = TRUE]
        ELSE v

CacheInit ==
    /\ cache_file \in FileContents
    /\ sdc_data = PyDict(<< >>)
    /\ cache_config \in {"cachedir", "missing"}
    /\ now \in cache_outdated_interval..(cache_outdated_interval + MaxDay + 1)
    /\ last_call = "__init__"
    /\ raised = "none"
    /\ fell_back = FALSE
    /\ written = NotWritten
    /\ trip = "none"

\* a call of a method that neither writes the cache nor starts a controller
Called(name, r) ==
    /\ last_call' = name
    /\ sdc_data' = r.data
    /\ cache_file' = r.file
    /\ raised' = r.exc
    /\ UNCHANGED << cache_config, now >>
    /\ UNCHANGED << scanVars, zipVars, mainVars >>

Load ==
    LET r == load(sdc_data, cache_file)
    IN  /\ Called("load", r)
        /\ fell_back' = r.fell_back
        /\ written' = IF r.fell_back /\ r.exc = "none" THEN r.data ELSE written
        /\ trip' = IF trip = "fresh" THEN "loaded" ELSE "none"

WriteToCache ==
    LET r == write_to_cache(sdc_data, cache_file)
    IN  /\ Called("write_to_cache", r)
        /\ written' = IF r.exc = "none" THEN sdc_data ELSE written
        /\ trip' = IF r.exc = "none" THEN "written" ELSE "none"
        /\ UNCHANGED fell_back

\* ScannerSignatureDataController.fetch_signatures_from_web: urlopen fails, or the
\* parsed document becomes self.data as it is
FetchSignaturesFromWeb ==
    /\ \/ \E data \in WebData : Called("fetch_signatures_from_web", Ok(data, cache_file))
       \/ Called("fetch_signatures_from_web", Raise("URLError", sdc_data, cache_file))
    /\ trip' = "none"
    /\ UNCHANGED << fell_back, written >>

CheckLastUpdated ==
    /\ Called("check_last_updated", check_last_updated(sdc_data, cache_file))
    /\ trip' = "none"
    /\ UNCHANGED << fell_back, written >>

CheckDataVersion ==
    /\ Called("check_data_version", check_data_version(sdc_data, cache_file))
    /\ trip' = "none"
    /\ UNCHANGED << fell_back, written >>

\* SignatureDataController.__init__: another controller of the same file
NewController ==
    /\ Called("__init__", Ok(PyDict(<< >>), cache_file))
    /\ fell_back' = FALSE
    /\ trip' = IF trip = "written" THEN "fresh" ELSE "none"
    /\ UNCHANGED written

CacheNext ==
    \/ Load
    \/ WriteToCache
    \/ FetchSignaturesFromWeb
    \/ CheckLastUpdated
    \/ CheckDataVersion
    \/ NewController

\* the cache's variables while another part of the program runs
CacheIdle ==
    /\ cache_file = AbsentFile
    /\ sdc_data = PyDict(<< >>)
    /\ cache_config = "cachedir"
    /\ now = cache_outdated_interval
    /\ last_call = "idle"
    /\ raised = "none"
    /\ fell_back = FALSE
    /\ written = NotWritten
    /\ trip = "none"

(***************************************************************************)
(* Claims about SignatureDataController.                                   *)
(***************************************************************************)
IsDictFile(file) == file.kind = "json" /\ file.type = "dict"

LoadCalled == last_call' = "load" /\ cache_config = "cachedir"

FellBackToDefaults ==
    /\ raised' = "none"
    /\ sdc_data' = Defaults
    /\ cache_file' = JsonDump(Defaults)

\* C3: a load of a cache file whose 'version' is not SCANNER_CACHE_VERSION ends with
\* the bundled defaults as data and with the cache file rewritten from them,
\* whatever the file's other fields hold.
C3_VersionMismatchMalformed ==
    [][(/\ LoadCalled
        /\ IsDictFile(cache_file)
        /\ "version" \in DOMAIN cache_file.d
        /\ cache_file.d["version"] # SCANNER_CACHE_VERSION) => FellBackToDefaults]_cacheVars

\* C4: a load with the cache file absent or unparsable raises nothing and ends with
\* the bundled defaults as data and written to the cache file.
C4_LoadNeverRaises ==
    [][(LoadCalled /\ cache_file.kind \in {"absent", "text"}) => FellBackToDefaults]_cacheVars

\* C6: once write_to_cache has written the cache file, the file has no top-level
\* key other than 'timestamp', 'version' and 'signatures'.
C6_OnlyRecognisedKeys ==
    (written # NotWritten /\ IsDictFile(cache_file)) => DOMAIN cache_file.d \subseteq valid_keys

\* a signature set of the cache's schema
SchemaValid(py) ==
    /\ py.type = "dict"
    /\ DOMAIN py.d = valid_keys
    /\ py.d["version"] = SCANNER_CACHE_VERSION
    /\ py.d["timestamp"].kind \in {"aware", "naive"}
    /\ \A k \in DOMAIN py.d["signatures"] : k[1] = "str"

\* C7: after write_to_cache of a schema-valid signature set s, a load on a fresh
\* controller of the same file raises nothing, does not fall back to the defaults
\* and ends with a 'signatures' mapping equal to that of s.
C7_RoundTrip ==
    (trip = "loaded" /\ SchemaValid(written)) =>
        /\ raised = "none"
        /\ ~fell_back
        /\ sdc_data.type = "dict"
        /\ "signatures" \in DOMAIN sdc_data.d
        /\ sdc_data.d["signatures"] = written.d["signatures"]

\* a fresh controller has loaded a written schema-valid set that is not the
\* bundled one and that names a rule
C7_Witness ==
    /\ trip = "loaded"
    /\ SchemaValid(written)
    /\ written # Defaults
    /\ written.d["signatures"] # << >>
    /\ sdc_data.d["signatures"] = written.d["signatures"]

\* data with the recognised keys, the current version and a timestamp that names a
\* day more than cache_outdated_interval before now
WellFormedStale(py) ==
    /\ py.type = "dict"
    /\ valid_keys \subseteq DOMAIN py.d
    /\ py.d["version"] = SCANNER_CACHE_VERSION
    /\ py.d["timestamp"].kind = "aware"
    /\ py.d["timestamp"].day + cache_outdated_interval < now

MaxRecursionDepth == 10

MaxEntries == 2     \* entries of one archive
MaxNested == 1      \* sound, well-named archives among the entries of one archive
MaxOdd == 2         \* other entries, over the whole container

MaxDepthReached(path) == <<"Max recursion depth in ZIP file reached", path>>
ProblemWithZip(path) == <<"Problem with ZIP file", path>>
ZipWithoutExtension(path) == <<"ZIP file without proper file extension", path>>
DexWithFakeName(path) == <<"DEX file with fake name", path>>
\* a class name that the regular expression finds in dexdump's output
DexClass == <<"class", << >> >>

\* get_embedded_classes(apkfile, depth) up to the first entry: the set it returns
\* at once, or that it opened the archive, or the exception that leaves it
EnterArchive(kind, path) ==
    IF Len(path) > MaxRecursionDepth
    THEN [to |-> "return", set |-> {MaxDepthReached(path)}]
    ELSE IF kind = "badzip" THEN [to |-> "return", set |-> {ProblemWithZip(path)}]
    ELSE IF kind = "unreadable" THEN [to |-> "raise", set |-> {}]
    ELSE [to |-> "open", set |-> {}]

Frame(path, proper) == [path |-> path, classes |-> {}, n |-> 0, nested |-> 0, proper |-> proper]

Top == zip_stack[Len(zip_stack)]

\* the caller's classes after a call for its entry returned set
AfterNested(frame, set, entry, proper) ==
    [frame EXCEPT !.classes = (@ \cup set)
                      \cup (IF proper THEN {} ELSE {ZipWithoutExtension(entry)})]

ZipInit ==
    /\ zip_stack = << >>
    /\ zip_pc = "call"
    /\ zip_result = {}
    /\ zip_exc = "none"
    /\ zip_odd = 0
    /\ zip_opened = {}
    /\ zip_refused = {}
    /\ zip_failed = {}

\* the top-level call: get_embedded_classes(apkfile)
CallTopLevel(kind) ==
    /\ zip_pc = "call"
    /\ LET e == EnterArchive(kind, << >>)
       IN  /\ zip_pc' = CASE e.to = "open" -> "running"
                          [] e.to = "return" -> "done"
                          [] e.to = "raise" -> "raised"
           /\ zip_stack' = IF e.to = "open" THEN << Frame(<< >>, TRUE) >> ELSE << >>
           /\ zip_result' = e.set
           /\ zip_exc' = IF e.to = "raise" THEN "OSError" ELSE "none"
           /\ zip_opened' = IF e.to = "open" THEN {0} ELSE {}
           /\ zip_failed' = IF kind = "zip" THEN {} ELSE { << >> }
    /\ UNCHANGED << zip_odd, zip_refused >>
    /\ UNCHANGED << scanVars, cacheVars, mainVars >>

\* the loop meets an entry that is_zipfile accepts: the recursive call
NestedEntry(kind, proper) ==
    /\ zip_pc = "running"
    /\ Top.n < MaxEntries
    /\ IF kind = "zip" /\ proper THEN Top.nested < MaxNested ELSE zip_odd < MaxOdd
    /\ LET entry == Append(Top.path, Top.n + 1)
           e == EnterArchive(kind, entry)
           here == [Top EXCEPT !.n = @ + 1,
                               !.nested = IF kind = "zip" /\ proper THEN @ + 1 ELSE @]
       IN  /\ zip_stack' =
                 IF e.to = "open"
                 THEN Append([zip_stack EXCEPT ![Len(zip_stack)] = here], Frame(entry, proper))
                 ELSE [zip_stack EXCEPT ![Len(zip_stack)] = AfterNested(here, e.set, entry, proper)]
           /\ zip_opened' = IF e.to = "open" THEN zip_opened \cup {Len(entry)} ELSE zip_opened
           /\ zip_refused' = IF Len(entry) > MaxRecursionDepth
                             THEN zip_refused \cup {entry} ELSE zip_refused
           /\ zip_failed' = IF Len(entry) <= MaxRecursionDepth /\ kind = "badzip"
                            THEN zip_failed \cup {entry} ELSE zip_failed
           /\ zip_odd' = IF kind = "zip" /\ proper THEN zip_odd ELSE zip_odd + 1
    /\ UNCHANGED << zip_pc, zip_result, zip_exc >>
    /\ UNCHANGED << scanVars, cacheVars, mainVars >>

\* the loop meets an entry that is no archive and reads its first bytes
OtherEntry(kind, named) ==
    /\ zip_pc = "running"
    /\ Top.n < MaxEntries
    /\ zip_odd < MaxOdd
    /\ kind \in {"plain", "dex"}
    /\ LET entry == Append(Top.path, Top.n + 1)
           found == IF kind = "dex"
                    THEN (IF named THEN {} ELSE {DexWithFakeName(entry)}) \cup {DexClass}
                    ELSE {}
       IN  zip_stack' = [zip_stack EXCEPT ![Len(zip_stack)] =
                            [Top EXCEPT !.n = @ + 1, !.classes = @ \cup found]]
    /\ zip_odd' = zip_odd + 1
    /\ UNCHANGED << zip_pc, zip_result, zip_exc, zip_opened, zip_refused, zip_failed >>
    /\ UNCHANGED << scanVars, cacheVars, mainVars >>

\* a call ends with set: the top-level call returns it, a nested one hands it to
\* the caller's loop
ReturnSet(set) ==
    IF Len(zip_stack) = 1
    THEN /\ zip_stack' = << >>
         /\ zip_pc' = "done"
         /\ zip_result' = set
    ELSE /\ zip_stack' =
             [i \in 1..(Len(zip_stack) - 1) |->
                 IF i = Len(zip_stack) - 1
                 THEN AfterNested(zip_stack[i], set, Top.path, Top.proper)
                 ELSE zip_stack[i]]
         /\ UNCHANGED << zip_pc, zip_result >>

\* zipfile raises BadZipFile on an entry: the except clause of the call that is
\* walking the archive returns the one string
CorruptEntry ==
    /\ zip_pc = "running"
    /\ Top.n < MaxEntries
    /\ zip_odd < MaxOdd
    /\ ReturnSet({ProblemWithZip(Top.path)})
    /\ zip_failed' = zip_failed \cup {Append(Top.path, Top.n + 1)}
    /\ zip_odd' = zip_odd + 1
    /\ UNCHANGED << zip_exc, zip_opened, zip_refused >>
    /\ UNCHANGED << scanVars, cacheVars, mainVars >>

\* zipfile raises another exception on an entry: no call catches it
UnreadableEntry ==
    /\ zip_pc = "running"
    /\ Top.n < MaxEntries
    /\ zip_odd < MaxOdd
    /\ zip_stack' = << >>
    /\ zip_pc' = "raised"
    /\ zip_exc' = "RuntimeError"
    /\ zip_failed' = zip_failed \cup {Append(Top.path, Top.n + 1)}
    /\ zip_odd' = zip_odd + 1
    /\ UNCHANGED << zip_result, zip_opened, zip_refused >>
    /\ UNCHANGED << scanVars, cacheVars, mainVars >>

\* the loop over infolist() ends: return classes
EndOfArchive ==
    /\ zip_pc = "running"
    /\ ReturnSet(Top.classes)
    /\ UNCHANGED << zip_exc, zip_odd, zip_opened, zip_refused, zip_failed >>
    /\ UNCHANGED << scanVars, cacheVars, mainVars >>

ZipNext ==
    \/ \E kind \in {"zip", "badzip", "unreadable"} : CallTopLevel(kind)
    \/ \E kind \in {"zip", "badzip"} : \E proper \in BOOLEAN : NestedEntry(kind, proper)
    \/ \E kind \in {"plain", "dex"} : \E named \in BOOLEAN : OtherEntry(kind, named)
    \/ CorruptEntry
    \/ UnreadableEntry
    \/ EndOfArchive

\* the inspection's variables while another part of the program runs
ZipIdle ==
    /\ zip_stack = << >>
    /\ zip_pc = "idle"
    /\ zip_result = {}
    /\ zip_exc = "none"
    /\ zip_odd = 0
    /\ zip_opened = {}
    /\ zip_refused = {}
    /\ zip_failed = {}

(***************************************************************************)
(* Claims about get_embedded_classes.                                      *)
(***************************************************************************)
Returned == zip_pc = "done"

Anomalies(text) == { t \in zip_result : t[1] = text }

\* C5: for every container nested deeper than the depth bound, no archive is
\* opened at a depth beyond the bound, and the set the top-level call returns
\* holds the max-recursion-depth string of every branch a call refused to
\* descend.
C5_SentinelInResult ==
    /\ \A d \in zip_opened : d <= MaxRecursionDepth
    /\ (Returned /\ zip_refused # {}) =>
           \A a \in zip_refused : MaxDepthReached(a) \in zip_result

\* C10: whatever is wrong with the container or with an entry of it, no
\* exception leaves get_embedded_classes, and the set it returns holds a
\* 'Problem with ZIP file' string.
C10_NeverRaises ==
    /\ zip_pc # "raised"
    /\ (Returned /\ zip_failed # {}) => Anomalies("Problem with ZIP file") # {}

(***************************************************************************)
(* main: the loop over the applications (lines 703-770).                   *)
(*                                                                         *)
(* The applications are numbered 1, 2, ... in the order of apps.items().   *)
(* A report object is named by <<application, key>>: key 0 is              *)
(* 'current-source-state', key k > 0 the versionCode of the k-th build;    *)
(* <<0, 0>> is the object the module makes on import (line 50).  A dict    *)
(* of reports is the sequence of its keys.                                 *)
(***************************************************************************)
MaxApps == 2
MaxBuilds == 2

\* what a call of scan_source leaves: the lists it appended to json_per_build (none,
\* an info, a warning or an error), and the count it returned or that an exception
\* left it
ScanOutcomes ==
    { [report |-> DEFAULT_JSON_PER_BUILD, count |-> 0, exc |-> FALSE],
      [report |-> [DEFAULT_JSON_PER_BUILD EXCEPT !.infos = <<"Removing">>], count |-> 0, exc |-> FALSE],
      [report |-> [DEFAULT_JSON_PER_BUILD EXCEPT !.warnings = <<"Found">>], count |-> 0, exc |-> FALSE],
      [report |-> [DEFAULT_JSON_PER_BUILD EXCEPT !.errors = <<"Found">>], count |-> 1, exc |-> FALSE],
      [report |-> [DEFAULT_JSON_PER_BUILD EXCEPT !.infos = <<"Removing">>], count |-> 0, exc |-> TRUE] }

\* len(v['errors']) or len(v['warnings']) or len(v['infos'])
NonEmptyReport(v) == Len(v.errors) # 0 \/ Len(v.warnings) # 0 \/ Len(v.infos) # 0

\* a slip: the application's dict is put into the output whatever its reports hold
FilterApp_Always(output, appid, keys, reports) == output @@ (appid :> keys)

\* lines 767-770: json_output after the loop over json_per_appid.items()
FilterApp(output, appid, keys, reports) ==
    IF \E i \in 1..Len(keys) : NonEmptyReport(reports[<<appid, keys[i]>>])
    THEN output @@ (appid :> keys)
    ELSE output

MainInit ==
    /\ main_pc = "apps"
    /\ main_app = 0
    /\ main_builds = 0
    /\ main_force \in BOOLEAN
    /\ main_reports = (<<0, 0>> :> DEFAULT_JSON_PER_BUILD)
    /\ main_jpb = <<0, 0>>
    /\ json_per_appid = << >>
    /\ json_output = << >>
    /\ probcount = 0

\* an application with Disabled set, without --force: lines 707-710
SkipDisabledApp ==
    /\ main_pc = "apps"
    /\ main_app < MaxApps
    /\ ~main_force
    /\ main_app' = main_app + 1
    /\ main_reports' = [main_reports EXCEPT ![main_jpb].infos = Append(@, "Skipping: disabled")]
    /\ json_per_appid' = << >>
    /\ UNCHANGED << main_pc, main_builds, main_force, main_jpb, json_output, probcount >>
    /\ UNCHANGED << scanVars, cacheVars, zipVars >>

\* an application without Builds: lines 722-732
ScanCurrentSource(outcome) ==
    /\ main_pc = "apps"
    /\ main_app < MaxApps
    /\ main_app' = main_app + 1
    /\ main_jpb' = <<main_app + 1, 0>>
    /\ main_reports' = main_reports @@ (<<main_app + 1, 0>> :> outcome.report)
    /\ json_per_appid' = <<0>>
    /\ probcount' = probcount + (IF outcome.exc THEN 1 ELSE outcome.count)
    /\ main_pc' = "filter"
    /\ main_builds' = 0
    /\ UNCHANGED << main_force, json_output >>
    /\ UNCHANGED << scanVars, cacheVars, zipVars >>

\* an application with Builds: lines 718-721; common.getvcs returns or raises
BeginBuilds(raises) ==
    /\ main_pc = "apps"
    /\ main_app < MaxApps
    /\ main_app' = main_app + 1
    /\ json_per_appid' = << >>
    /\ main_builds' = 0
    /\ main_pc' = IF raises THEN "filter" ELSE "builds"
    /\ probcount' = IF raises THEN probcount + 1 ELSE probcount
    /\ UNCHANGED << main_force, main_reports, main_jpb, json_output >>
    /\ UNCHANGED << scanVars, cacheVars, zipVars >>

\* one build of the application: lines 734-753, and the except clauses
ProcessBuild(disable, outcome) ==
    /\ main_pc = "builds"
    /\ main_builds < MaxBuilds
    /\ LET key == main_builds + 1
           skipped == disable /\ ~main_force
           raises == ~skipped /\ outcome.exc
       IN  /\ main_builds' = key
           /\ main_jpb' = <<main_app, key>>
           /\ json_per_appid' = Append(json_per_appid, key)
           /\ main_reports' = main_reports @@
                  (<<main_app, key>> :> IF skipped THEN DEFAULT_JSON_PER_BUILD
                                        ELSE outcome.report)
           /\ probcount' = IF skipped THEN probcount
                           ELSE IF raises THEN probcount + 1
                           ELSE probcount + outcome.count
           /\ main_pc' = IF raises THEN "filter" ELSE "builds"
    /\ UNCHANGED << main_app, main_force, json_output >>
    /\ UNCHANGED << scanVars, cacheVars, zipVars >>

\* the loop over the builds has ended, or an except clause has run: lines 767-770
FinishApp ==
    /\ main_pc \in {"builds", "filter"}
    /\ json_output' = FilterApp(json_output, main_app, json_per_appid, main_reports)
    /\ main_pc' = "apps"
    /\ UNCHANGED << main_app, main_builds, main_force, main_reports, main_jpb,
                    json_per_appid, probcount >>
    /\ UNCHANGED << scanVars, cacheVars, zipVars >>

\* apps.items() is exhausted: lines 772-776
Finished ==
    /\ main_pc = "apps"
    /\ main_pc' = "done"
    /\ UNCHANGED << main_app, main_builds, main_force, main_reports, main_jpb,
                    json_per_appid, json_output, probcount >>
    /\ UNCHANGED << scanVars, cacheVars, zipVars >>

MainNext ==
    \/ SkipDisabledApp
    \/ \E outcome \in ScanOutcomes : ScanCurrentSource(outcome)
    \/ \E raises \in BOOLEAN : BeginBuilds(raises)
    \/ \E disable \in BOOLEAN : \E outcome \in ScanOutcomes : ProcessBuild(disable, outcome)
    \/ FinishApp
    \/ Finished

\* main's variables while another part of the program runs
MainIdle ==
    /\ main_pc = "idle"
    /\ main_app = 0
    /\ main_builds = 0
    /\ main_force = FALSE
    /\ main_reports = (<<0, 0>> :> DEFAULT_JSON_PER_BUILD)
    /\ main_jpb = <<0, 0>>
    /\ json_per_appid = << >>
    /\ json_output = << >>
    /\ probcount = 0

(***************************************************************************)
(* Claims about main.                                                      *)
(***************************************************************************)
\* the report objects of an application's entry in json_output
BuildEntries(appid) == { main_reports[<<appid, json_output[appid][i]>>] :
                            i \in 1..Len(json_output[appid]) }

\* C12 as stated: no build entry of json_output has all three lists empty.
C12_NoEmptyBuildEntry ==
    \A appid \in DOMAIN json_output : \A v \in BuildEntries(appid) : NonEmptyReport(v)

\* C12, amended: an application's entry is in json_output only if at least one of
\* its builds has a non-empty category, and lines 767-770 put the application's
\* whole dict there exactly when one has: the entry holds every build taken for the
\* application, also those whose three lists are empty.
C12_AppWithNonEmptyBuild ==
    /\ [](\A appid \in DOMAIN json_output : \E v \in BuildEntries(appid) : NonEmptyReport(v))
    /\ [][main_pc' = "apps" /\ main_pc # "apps" =>
            /\ (main_app \in DOMAIN json_output') =
                  (\E i \in 1..Len(json_per_appid) :
                      NonEmptyReport(main_reports[<<main_app, json_per_appid[i]>>]))
            /\ main_app \in DOMAIN json_output' =>
                  json_output'[main_app] = json_per_appid]_mainVars

\* main has finished with an application in json_output that has a build with a
\* finding and a build, scanned or skipped, with three empty lists
C12_Witness ==
    /\ main_pc = "done"
    /\ \E appid \in DOMAIN json_output :
         /\ \E v \in BuildEntries(appid) : NonEmptyReport(v)
         /\ \E v \in BuildEntries(appid) : ~NonEmptyReport(v)

(***************************************************************************)
(* The specifications: one per part of the program, the others at rest.    *)
(***************************************************************************)
vars == << scanVars, cacheVars, zipVars, mainVars >>

InitScan == ScanInit /\ CacheIdle /\ ZipIdle /\ MainIdle

SpecScan == InitScan /\ [][ScanNext]_vars

InitCache == CacheInit /\ ScanIdle /\ ZipIdle /\ MainIdle

SpecCache == InitCache /\ [][CacheNext]_vars

InitZip == ZipInit /\ ScanIdle /\ CacheIdle /\ MainIdle

SpecZip == InitZip /\ [][ZipNext]_vars

InitMain == MainInit /\ ScanIdle /\ CacheIdle /\ ZipIdle

SpecMain == InitMain /\ [][MainNext]_vars

====
